---- MODULE Spec2Model ----
(***************************************************************************)
(* Model of ts/model_service_worker_manager.py: the worker manager's       *)
(* listener, its connection loop (handle_connection), the three command    *)
(* operations (load_model, scale_up, scale_down), the worker record store  *)
(* (self.workers) and the readiness polling loop of scale_up, together     *)
(* with the spawned worker processes that write the readiness sentinel.    *)
(***************************************************************************)
EXTENDS Integers, Sequences, FiniteSets, TLC

\* ---------------------------------------------------------------- bounds
MaxCmds == 3        \* commands decoded on the connection in one run
MaxProcs == 2       \* worker processes spawned in one run

\* ------------------------------------------------------ program constants
RETRY_BUDGET == 10  \* retry = 10

\* ----------------------------------------------------------- value model
None == <<>>                 \* Python None for an optional value
Some(x) == <<x>>             \* a present optional value
Absent == "ABSENT"           \* the key is not in the request mapping

SockNames == {"", "s1"}
Ports == {"p1"}
FifoPaths == {"f1", "f2"}
Exts == {"out", "err"}
ModelNames == {"m1"}
ModelDirs == {"d1"}
Handlers == {"", "h1"}       \* b"" is falsy in Python
IntBytes == {"", "1"}        \* byte strings handed to int()

\* int(b"...") on the byte strings of IntBytes; int(b"") raises ValueError
IsIntLiteral(b) == b \in {"0", "1", "2"}
IntOf(b) == CASE b = "0" -> 0 [] b = "1" -> 1 [] b = "2" -> 2

NoService == [present |-> FALSE, metrics |-> FALSE]
\* last: tag = the decoded command tag, cmd = the operation that was called,
\* wf = the request carried every field the operation requires
\* svc = the service a Load returned, fault = the exception the environment
\* raised during a Scale Up
NoLast == [tag |-> "", cmd |-> "", wf |-> FALSE, key |-> "", raised |-> FALSE, msg |-> "",
           code |-> 0, stage |-> "", attempts |-> 0, sleeps |-> 0, pre |-> {},
           pid |-> 0, fifo |-> "", svc |-> NoService, fault |-> "none"]
NoResp == [cmd |-> "", code |-> 0, msg |-> ""]
NoCall == [id |-> "", fifo |-> "", pre |-> {}, pid |-> 0, fault |-> "none"]

VARIABLES
    arg,            \* argument of a single call of load_model
    ret,            \* what that call returned
    sock_type,      \* __main__: sock_type ("unix" or "tcp")
    sock_file,      \* the bound domain-socket file exists
    BENCHMARK,      \* module flag BENCHMARK (TS_BENCHMARK)
    pc,             \* position of the manager process
    error,          \* exception class that ended the manager process
    service,        \* handle_connection local: service
    service_args,   \* handle_connection local: service_args
    workers,        \* self.workers: worker id -> record
    procs,          \* spawned mp.Process objects, index = process handle
    files,          \* synchronization files: <<path, ext>> -> contents
    retry,          \* scale_up local: retry
    call,           \* scale_up locals while polling: worker_id, fifo_path
    attempts,       \* polling attempts made by the running scale_up
    sleeps,         \* time.sleep(1) calls made by the running scale_up
    ncmds,          \* commands returned by retrieve_msg so far
    sent,           \* number of responses written with cl_socket.send
    resp,           \* the response written last
    emitted,        \* emit_metrics was called in the last loop iteration
    last            \* outcome of the most recent operation call

vars == <<arg, ret, sock_type, sock_file, BENCHMARK, pc, error, service, service_args, workers, procs, files,
          retry, call, attempts, sleeps, ncmds, sent, resp, emitted, last>>

FileKeys == FifoPaths \X Exts
NoFile == [exists |-> FALSE, sentinels |-> {}]
EmptyFile == [exists |-> TRUE, sentinels |-> {}]

\* "Torch worker started." in f.read()
SentinelIn(f) == f.sentinels # {}

\* ------------------------------------------------------------ load_model
LoaderOutcomes == {"modelFile", "noModelFile", "noManifest", "MemoryError",
                   "MemoryErrorInit", "Error"}

LoadRequests ==
    [modelPath : ModelDirs \cup {Absent}, modelName : ModelNames \cup {Absent},
     handler : Handlers \cup {Absent}, batchSize : IntBytes \cup {Absent},
     gpu : IntBytes \cup {Absent}]

\* the load requests sent on the connection: a complete one, one with the
\* optional values empty or left out, and one for each field that can raise
ConnLoadRequests ==
    {r \in LoadRequests :
        \/ r.modelPath # Absent /\ r.modelName # Absent /\ r.handler = "h1"
             /\ r.batchSize = "1" /\ r.gpu = "1"
        \/ r.modelPath # Absent /\ r.modelName # Absent /\ r.handler = ""
             /\ r.batchSize = Absent /\ r.gpu = Absent
        \/ r.modelPath # Absent /\ r.modelName # Absent /\ r.handler = Absent
             /\ r.batchSize = "1" /\ r.gpu = "1"
        \/ r.modelPath # Absent /\ r.modelName # Absent /\ r.handler = "h1"
             /\ r.batchSize = "" /\ r.gpu = "1"
        \/ r.modelPath = Absent /\ r.modelName # Absent /\ r.handler = "h1"
             /\ r.batchSize = "1" /\ r.gpu = "1"}

\* a Load command with its two required fields and readable integer fields
LoadWellFormed(req) ==
    /\ req.modelPath # Absent /\ req.modelName # Absent
    /\ req.batchSize \in {Absent, "1"} /\ req.gpu \in {Absent, "1"}

\* a test that takes a missing manifest for one with a model file
IsEager_NoManifestCheck(ld) == ld \in {"modelFile", "MemoryErrorInit", "noManifest"}

\* if service.context.manifest: is_eager = 'modelFile' in ...manifest['model']
IsEager(ld) == ld \in {"modelFile", "MemoryErrorInit"}

LoadRaise(e) == [raised |-> TRUE, exc |-> e, service |-> NoService,
                 service_args |-> None, msg |-> "", code |-> 0]

\* load_model: the decoded fields, then the two calls of model_loader.load
load_model(req, ld, metrics) ==
    IF req.modelPath = Absent \/ req.modelName = Absent \/ req.handler = Absent
    THEN LoadRaise("KeyError")
    ELSE IF (req.batchSize # Absent /\ ~IsIntLiteral(req.batchSize))
             \/ (req.gpu # Absent /\ ~IsIntLiteral(req.gpu))
    THEN LoadRaise("ValueError")
    ELSE
      LET handler == IF req.handler # "" THEN Some(req.handler) ELSE None
          batch_size == IF req.batchSize # Absent THEN Some(IntOf(req.batchSize)) ELSE None
          gpu == IF req.gpu # Absent THEN Some(IntOf(req.gpu)) ELSE None
          is_eager == IsEager(ld)
      IN  CASE ld = "Error" -> LoadRaise("Exception")
            [] ld \in {"MemoryError", "MemoryErrorInit"} ->
                 [raised |-> FALSE, exc |-> "", service |-> NoService,
                  service_args |-> None, msg |-> "System out of memory", code |-> 507]
            [] is_eager ->
                 [raised |-> FALSE, exc |-> "",
                  service |-> [present |-> TRUE, metrics |-> metrics],
                  service_args |-> None,
                  msg |-> "loaded model " \o req.modelName, code |-> 200]
            [] OTHER ->
                 [raised |-> FALSE, exc |-> "", service |-> NoService,
                  service_args |-> <<Some(req.modelName), Some(req.modelPath),
                                     handler, gpu, batch_size>>,
                  msg |-> "loaded model " \o req.modelName, code |-> 200]

\* -------------------------------------------------------------- scale_up
ScaleUpRequests ==
    [sock_name : SockNames \cup {Absent}, sock_type : {"unix", Absent},
     host : {"h", Absent}, port : Ports \cup {Absent},
     fifo_path : FifoPaths \cup {Absent}]

\* the scale-up requests sent on the connection: at most one field left out
ConnScaleUpRequests ==
    {r \in ScaleUpRequests : Cardinality({k \in DOMAIN r : r[k] = Absent}) <= 1}

\* exceptions the environment can raise before the polling loop
Faults == {"none", "worker", "remove_out", "open_out", "remove_err",
           "open_err", "start"}

\* a request that fails in field decoding reaches no later call, and
\* os.remove is only called on a file that exists
FaultsFor(req, fs) ==
    IF \E k \in DOMAIN req : req[k] = Absent THEN {"none"}
    ELSE {f \in Faults :
            /\ f = "remove_out" => fs[<<req.fifo_path, "out">>].exists
            /\ f = "remove_err" => fs[<<req.fifo_path, "err">>].exists}

\* a key taken from the port alone
WorkerId_PortOnly(sock_name, port) == port

\* worker_id = sock_name if sock_name else port
WorkerId(sock_name, port) == IF sock_name # "" THEN sock_name ELSE port

\* a file setup that opens an existing file without emptying it
create_fifo_KeepContent(fs, key, remove_fails, open_fails) ==
    IF fs[key].exists /\ remove_fails
    THEN [ok |-> FALSE, files |-> fs]
    ELSE IF open_fails
    THEN [ok |-> FALSE, files |-> [fs EXCEPT ![key] = NoFile]]
    ELSE [ok |-> TRUE,
          files |-> IF fs[key].exists THEN fs ELSE [fs EXCEPT ![key] = EmptyFile]]

\* a file setup whose errors are swallowed
create_fifo_NoError(fs, key, remove_fails, open_fails) ==
    [ok |-> TRUE, files |-> [fs EXCEPT ![key] = EmptyFile]]

\* create_fifo: os.remove if the file exists, then open(file_name, "w").close()
create_fifo(fs, key, remove_fails, open_fails) ==
    IF fs[key].exists /\ remove_fails
    THEN [ok |-> FALSE, files |-> fs]
    ELSE IF open_fails
    THEN [ok |-> FALSE, files |-> [fs EXCEPT ![key] = NoFile]]
    ELSE [ok |-> TRUE, files |-> [fs EXCEPT ![key] = EmptyFile]]

\* scale_up up to p.start(): the stage that raised, or "spawned"
scale_up_setup(req, fault, fs) ==
    IF \E k \in DOMAIN req : req[k] = Absent
    THEN [stage |-> "decode", files |-> fs]
    ELSE IF fault = "worker"
    THEN [stage |-> "worker", files |-> fs]
    ELSE
      LET o == create_fifo(fs, <<req.fifo_path, "out">>,
                           fault = "remove_out", fault = "open_out")
          e == create_fifo(o.files, <<req.fifo_path, "err">>,
                           fault = "remove_err", fault = "open_err")
      IN  IF ~o.ok THEN [stage |-> "fifo", files |-> o.files]
          ELSE IF ~e.ok THEN [stage |-> "fifo", files |-> e.files]
          ELSE IF fault = "start" THEN [stage |-> "start", files |-> e.files]
          ELSE [stage |-> "spawned", files |-> e.files]

\* a registration that is lost
Register_Skipped(ws, id, p, fifo_path) == ws

\* self.workers[worker_id] = { "worker" : p, "fifo" : fifo_path }
Register(ws, id, p, fifo_path) ==
    [k \in DOMAIN ws \cup {id} |->
        IF k = id THEN [worker |-> p, fifo |-> fifo_path] ELSE ws[k]]

\* a loop that forgets to count down
NextRetry_NoDecrement(r) == r

\* retry = retry - 1
NextRetry(r) == r - 1

\* an except clause that re-raises, as the one of scale_down does
scale_up_except_Reraise == [raised |-> TRUE, msg |-> "", code |-> 0]

\* the except clause of scale_up: log and return
scale_up_except == [raised |-> FALSE, msg |-> "scale up failed", code |-> 500]

\* a budget test that is off by one: the last attempt counts as exhausted
scale_up_after_loop_OffByOne(r) ==
    IF r <= 1 THEN scale_up_except
    ELSE [raised |-> FALSE, msg |-> "scaled up", code |-> 200]

\* after the while loop: if(retry == 0): raise ... ; return "scaled up", 200
scale_up_after_loop(r) ==
    IF r = 0 THEN scale_up_except
    ELSE [raised |-> FALSE, msg |-> "scaled up", code |-> 200]

\* ------------------------------------------------------------ scale_down
ScaleDownRequests == [port : SockNames \cup Ports \cup {Absent}]

\* scale_down: look the record up, terminate its process; the except clause
\* logs and re-raises
scale_down(req, ws) ==
    IF req.port = Absent \/ req.port \notin DOMAIN ws
    THEN [raised |-> TRUE, exc |-> "KeyError", msg |-> "", code |-> 0,
          terminate |-> 0, workers |-> ws]
    ELSE [raised |-> FALSE, exc |-> "", msg |-> "scaled down", code |-> 200,
          terminate |-> ws[req.port].worker, workers |-> ws]

\* worker.terminate() on process handle p
Terminate(ps, p) == [ps EXCEPT ![p].terms = @ + 1]

\* ----------------------------------------------------- handle_connection
\* a loop that goes on after a failed command
IsFatal_Never(code) == FALSE

\* if code != 200: raise RuntimeError(...)
IsFatal(code) == code # 200

\* a metrics test that only looks at the service
EmitsMetrics_ServiceOnly(svc) == svc.present

\* if service is not None and ... metrics is not None: emit_metrics(...)
EmitsMetrics(svc) == svc.present /\ svc.metrics

\* the D branch: code, result = 200, 'DONE'
scale_down_response(r) == [msg |-> "DONE", code |-> 200]

Tags == {"L", "U", "D"}
UnknownTags == {"X"}

\* a shutdown path that leaves the socket file behind
main_finally_KeepFile(type, exists) == exists

\* finally: if sock_type == 'unix' and os.path.exists(socket_name): os.remove
main_finally(type, exists) == IF type = "unix" /\ exists THEN FALSE ELSE exists

\* resp += create_..._response(code, result); cl_socket.send(resp);
\* if code != 200: raise RuntimeError; then the metrics check of the loop
Respond(cmd, msg, code, svc) ==
    /\ sent' = sent + 1
    /\ resp' = [cmd |-> cmd, code |-> code, msg |-> msg]
    /\ IF IsFatal(code)
       THEN /\ pc' = "exited"
            /\ error' = "RuntimeError"
            /\ emitted' = FALSE
            /\ sock_file' = main_finally(sock_type, sock_file)
       ELSE /\ pc' = "await"
            /\ error' = error
            /\ emitted' = EmitsMetrics(svc)
            /\ sock_file' = sock_file

\* an exception that only ends the connection: the listener accepts again
Escape_BackToAccept(exc) ==
    /\ pc' = "accepting"
    /\ error' = exc
    /\ emitted' = FALSE
    /\ sock_file' = sock_file
    /\ UNCHANGED <<sent, resp>>

\* an exception leaves handle_connection and run_server; __main__ logs it and
\* calls sys.exit(1)
Escape(exc) ==
    /\ pc' = "exited"
    /\ error' = exc
    /\ emitted' = FALSE
    /\ sock_file' = main_finally(sock_type, sock_file)
    /\ UNCHANGED <<sent, resp>>

\* result, code = self.scale_up(...) and the rest of the U branch
ReturnScaleUp(r, svc) ==
    IF r.raised THEN Escape("Exception") ELSE Respond("U", r.msg, r.code, svc)

\* the state after __init__ and the bind and listen of run_server, for a
\* manager started on a domain socket: bind has created the socket file
Init ==
    /\ arg = <<>>
    /\ ret = LoadRaise("")
    /\ sock_type = "unix"
    /\ sock_file = TRUE
    /\ BENCHMARK \in BOOLEAN
    /\ pc = "accepting"
    /\ error = ""
    /\ service = NoService
    /\ service_args = None
    /\ workers = [k \in {} |-> [worker |-> 0, fifo |-> ""]]
    /\ procs = <<>>
    /\ files = [k \in FileKeys |-> NoFile]
    /\ retry = 0
    /\ call = NoCall
    /\ attempts = 0
    /\ sleeps = 0
    /\ ncmds = 0
    /\ sent = 0
    /\ resp = NoResp
    /\ emitted = FALSE
    /\ last = NoLast

\* run_server: (cl_socket, _) = self.sock.accept(); self.handle_connection(...)
Accept ==
    /\ pc = "accepting"
    /\ pc' = "await"
    /\ service' = NoService
    /\ service_args' = None
    /\ UNCHANGED <<arg, ret, sock_type, sock_file, BENCHMARK, error, workers, procs, files, retry, call,
                   attempts, sleeps, ncmds, sent, resp, emitted, last>>

\* accept() raises socket.timeout after SOCKET_ACCEPT_TIMEOUT
AcceptTimeout ==
    /\ pc = "accepting"
    /\ pc' = "exited"
    /\ error' = "timeout"
    /\ sock_file' = main_finally(sock_type, sock_file)
    /\ UNCHANGED <<arg, ret, sock_type, BENCHMARK, service, service_args, workers, procs, files,
                   retry, call, attempts, sleeps, ncmds, sent, resp, emitted, last>>

\* one loop iteration with the profiling flag set: the elif chain hangs off
\* "if BENCHMARK", so no branch is taken
HandleBenchmark(cmd) ==
    /\ pc = "await" /\ BENCHMARK /\ ncmds < MaxCmds
    /\ ncmds' = ncmds + 1
    /\ last' = [NoLast EXCEPT !.tag = cmd]
    /\ emitted' = EmitsMetrics(service)
    /\ UNCHANGED <<arg, ret, sock_type, sock_file, BENCHMARK, pc, error, service, service_args, workers, procs,
                   files, retry, call, attempts, sleeps, sent, resp>>

\* cmd == b'L'
HandleLoad(req, ld, m) ==
    /\ pc = "await" /\ ~BENCHMARK /\ ncmds < MaxCmds
    /\ LET r == load_model(req, ld, m)
       IN  /\ ncmds' = ncmds + 1
           /\ last' = [NoLast EXCEPT !.tag = "L", !.cmd = "L", !.raised = r.raised,
                                     !.wf = LoadWellFormed(req),
                                     !.msg = r.msg, !.code = r.code,
                                     !.svc = r.service]
           /\ IF r.raised
              THEN Escape(r.exc) /\ UNCHANGED <<service, service_args>>
              ELSE /\ service' = r.service
                   /\ service_args' = r.service_args
                   /\ Respond("L", r.msg, r.code, r.service)
    /\ UNCHANGED <<arg, ret, sock_type, BENCHMARK, workers, procs, files, retry, call, attempts, sleeps>>

\* cmd == b'U': scale_up up to "retry = 10", or to its return when an
\* exception is raised before the loop
HandleScaleUp(req, fault) ==
    /\ pc = "await" /\ ~BENCHMARK /\ ncmds < MaxCmds
    /\ LET s == scale_up_setup(req, fault, files)
       IN  /\ s.stage = "spawned" => Len(procs) < MaxProcs
           /\ ncmds' = ncmds + 1
           /\ files' = s.files
           /\ IF s.stage = "spawned"
              THEN LET p == Len(procs) + 1
                       id == WorkerId(req.sock_name, req.port)
                   IN  /\ procs' = Append(procs, [sock_name |-> req.sock_name,
                                                  port |-> req.port,
                                                  fifo |-> req.fifo_path,
                                                  terms |-> 0])
                       /\ workers' = Register(workers, id, p, req.fifo_path)
                       /\ retry' = RETRY_BUDGET
                       /\ call' = [id |-> id, fifo |-> req.fifo_path,
                                   pre |-> DOMAIN workers, pid |-> p,
                                   fault |-> fault]
                       /\ pc' = "polling"
                       /\ last' = NoLast
                       /\ emitted' = FALSE
                       /\ UNCHANGED <<error, sent, resp, sock_file>>
              ELSE /\ last' = [NoLast EXCEPT !.tag = "U", !.cmd = "U",
                                  !.wf = (s.stage # "decode"),
                                  !.msg = scale_up_except.msg,
                                  !.raised = scale_up_except.raised,
                                  !.code = scale_up_except.code,
                                  !.stage = s.stage, !.pre = DOMAIN workers,
                                  !.fault = fault]
                   /\ ReturnScaleUp(scale_up_except, service)
                   /\ UNCHANGED <<workers, procs, retry, call>>
    /\ UNCHANGED <<arg, ret, sock_type, BENCHMARK, service, service_args, attempts, sleeps>>

\* scale_up returns r after n polling attempts
FinishScaleUp(r, n) ==
    /\ last' = [tag |-> "U", cmd |-> "U", wf |-> TRUE, key |-> call.id,
                raised |-> r.raised,
                msg |-> r.msg, code |-> r.code, stage |-> "spawned",
                attempts |-> n, sleeps |-> sleeps + 1, pre |-> call.pre,
                pid |-> call.pid, fifo |-> call.fifo, svc |-> NoService,
                fault |-> call.fault]
    /\ retry' = 0
    /\ call' = NoCall
    /\ attempts' = 0
    /\ sleeps' = 0
    /\ ReturnScaleUp(r, service)

\* one iteration of "while (retry > 0)": time.sleep(1), read the .out file and
\* break on the sentinel, read the .err file and break on the sentinel,
\* retry = retry - 1; then the loop test, and the code after the loop when the
\* loop is left. Both files only grow while they are polled, so the two reads
\* see what one read of both at the time of the second would see.
Poll ==
    /\ pc = "polling"
    /\ LET found == \/ SentinelIn(files[<<call.fifo, "out">>])
                    \/ SentinelIn(files[<<call.fifo, "err">>])
           r == IF found THEN retry ELSE NextRetry(retry)
       IN  IF found \/ ~(r > 0)
           THEN FinishScaleUp(scale_up_after_loop(r), attempts + 1)
           ELSE /\ retry' = r
                /\ attempts' = attempts + 1
                /\ sleeps' = sleeps + 1
                /\ UNCHANGED <<pc, error, call, sent, resp, emitted, last,
                               sock_file>>
    /\ UNCHANGED <<arg, ret, sock_type, BENCHMARK, service, service_args, workers, procs, files, ncmds>>

\* cmd == b'D'
HandleScaleDown(req) ==
    /\ pc = "await" /\ ~BENCHMARK /\ ncmds < MaxCmds
    /\ LET r == scale_down(req, workers)
       IN  /\ ncmds' = ncmds + 1
           /\ last' = [NoLast EXCEPT !.tag = "D", !.cmd = "D", !.key = req.port,
                                     !.wf = (req.port # Absent),
                                     !.raised = r.raised, !.msg = r.msg,
                                     !.code = r.code, !.pre = DOMAIN workers,
                                     !.pid = r.terminate]
           /\ IF r.raised
              THEN Escape(r.exc) /\ UNCHANGED <<workers, procs>>
              ELSE /\ procs' = Terminate(procs, r.terminate)
                   /\ workers' = r.workers
                   /\ Respond("D", scale_down_response(r).msg,
                              scale_down_response(r).code, service)
    /\ UNCHANGED <<arg, ret, sock_type, BENCHMARK, service, service_args, files, retry, call,
                   attempts, sleeps>>

\* else: raise ValueError("Received unknown command")
HandleUnknown(cmd) ==
    /\ pc = "await" /\ ~BENCHMARK /\ ncmds < MaxCmds
    /\ ncmds' = ncmds + 1
    /\ last' = [NoLast EXCEPT !.tag = cmd, !.raised = TRUE]
    /\ Escape("ValueError")
    /\ UNCHANGED <<arg, ret, sock_type, BENCHMARK, service, service_args, workers, procs, files,
                   retry, call, attempts, sleeps>>

\* the worker process p (worker.run_server) reports that it has started. The
\* manager reads a synchronization file only inside the polling loop and empties
\* it before the loop, so only a write made while that file is polled is seen.
\* A sentinel is kept as <<writer, the Scale Up during which it was written>>
WorkerWrite(p, ext) ==
    /\ pc = "polling"
    /\ p \in 1..Len(procs)
    /\ procs[p].fifo = call.fifo
    /\ procs[p].terms = 0
    /\ files[<<procs[p].fifo, ext>>].exists
    /\ <<p, call.pid>> \notin files[<<procs[p].fifo, ext>>].sentinels
    /\ files' = [files EXCEPT ![<<procs[p].fifo, ext>>].sentinels =
                                  @ \cup {<<p, call.pid>>}]
    /\ UNCHANGED <<arg, ret, sock_type, sock_file, BENCHMARK, pc, error, service, service_args, workers, procs,
                   retry, call, attempts, sleeps, ncmds, sent, resp, emitted, last>>

Next ==
    \/ Accept
    \/ AcceptTimeout
    \/ \E cmd \in Tags \cup UnknownTags : HandleBenchmark(cmd)
    \/ \E req \in ConnLoadRequests, ld \in LoaderOutcomes, m \in BOOLEAN :
          HandleLoad(req, ld, m)
    \/ \E req \in ConnScaleUpRequests :
          \E fault \in FaultsFor(req, files) : HandleScaleUp(req, fault)
    \/ Poll
    \/ \E req \in ScaleDownRequests : HandleScaleDown(req)
    \/ \E cmd \in UnknownTags : HandleUnknown(cmd)
    \/ \E p \in 1..MaxProcs, ext \in Exts : WorkerWrite(p, ext)

Spec == Init /\ [][Next]_vars

\* --------------------------------------------- load_model as a function
\* a single call of load_model on any request and any behaviour of the loader
LoadInit ==
    /\ arg \in [req : LoadRequests, ld : LoaderOutcomes, metrics : BOOLEAN]
    /\ ret = LoadRaise("")
    /\ sock_type = "unix"
    /\ sock_file = TRUE
    /\ BENCHMARK = FALSE
    /\ pc = "call"
    /\ error = ""
    /\ service = NoService
    /\ service_args = None
    /\ workers = [k \in {} |-> [worker |-> 0, fifo |-> ""]]
    /\ procs = <<>>
    /\ files = [k \in FileKeys |-> NoFile]
    /\ retry = 0
    /\ call = NoCall
    /\ attempts = 0
    /\ sleeps = 0
    /\ ncmds = 0
    /\ sent = 0
    /\ resp = NoResp
    /\ emitted = FALSE
    /\ last = NoLast

\* service, service_args, result, code = self.load_model(msg)
LoadCall ==
    /\ pc = "call"
    /\ ret' = load_model(arg.req, arg.ld, arg.metrics)
    /\ pc' = "returned"
    /\ UNCHANGED <<arg, sock_type, sock_file, BENCHMARK, error, service,
                   service_args, workers, procs, files, retry, call, attempts,
                   sleeps, ncmds, sent, resp, emitted, last>>

LoadSpec == LoadInit /\ [][LoadCall]_vars

\* the manager process is scheduled: a running scale_up takes its next step
FairSpec == Spec /\ WF_vars(Poll)

TypeOK ==
    /\ pc \in {"accepting", "await", "polling", "exited", "call", "returned"}
    /\ retry \in 0..RETRY_BUDGET
    /\ ncmds \in 0..MaxCmds
    /\ Len(procs) <= MaxProcs

\* ------------------------------------------------------------ properties
\* a step in which the connection loop takes the command with tag t
Receives(t) == pc = "await" /\ ncmds' = ncmds + 1 /\ last'.tag = t

\* the worker id a spawned process was registered for, from its socket target
KeyOf(p) == IF procs[p].sock_name # "" THEN procs[p].sock_name ELSE procs[p].port

\* the readiness sentinel is in one of the two files of base path f
SentinelAt(f) ==
    \/ files[<<f, "out">>].sentinels # {}
    \/ files[<<f, "err">>].sentinels # {}

\* C1: a Scale Down for an id that is not a key of the store does not end the
\* manager process: it yields a failure result, leaves the store as it was and
\* the loop stays able to take the next command.
C1_UnknownScaleDownFails ==
    [][(Receives("D") /\ last'.cmd = "D" /\ last'.key \notin DOMAIN workers)
         => /\ pc' = "await"
            /\ ~last'.raised
            /\ last'.code # 200
            /\ workers' = workers]_vars

\* C2: a Scale Down for a key of the store requests termination of the
\* record's process and removes the entry, so no process handle is asked to
\* terminate twice.
C2_ScaleDownRemovesRecord ==
    [][(Receives("D") /\ last'.cmd = "D" /\ last'.key \in DOMAIN workers)
         => /\ procs'[workers[last'.key].worker].terms
                 = procs[workers[last'.key].worker].terms + 1
            /\ last'.key \notin DOMAIN workers'
            /\ \A p \in 1..Len(procs') : procs'[p].terms <= 1]_vars

\* C3: a Scale Up makes at most 10 polling attempts, one sleep before each;
\* the polling loop ends whatever the worker does; and when 10 attempts found
\* no sentinel in either file the Scale Up reports failure.
C3_PollingBounded ==
    /\ [](/\ attempts <= RETRY_BUDGET /\ sleeps = attempts
          /\ last.attempts <= RETRY_BUDGET /\ last.sleeps = last.attempts
          /\ (pc = "polling" => attempts < RETRY_BUDGET)
          /\ (last.cmd = "U" /\ last.stage = "spawned" /\ ~SentinelAt(last.fifo))
                => (/\ last.attempts = RETRY_BUDGET
                    /\ last.msg = "scale up failed" /\ last.code = 500))
    /\ ((pc = "polling") ~> (pc # "polling"))

C3_Witness ==
    /\ last.cmd = "U" /\ last.stage = "spawned"
    /\ last.attempts = RETRY_BUDGET /\ last.code = 500
    /\ ~SentinelAt(last.fifo)

\* C4: a polling attempt (the 1st to the 10th) that finds the sentinel in the
\* .out or the .err file ends the polling; the Scale Up returns
\* ("scaled up", 200), and when the id was not in the store before, the store
\* has gained exactly the entry of that id.
C4_SentinelEndsPolling ==
    [][(pc = "polling" /\ (attempts' # attempts \/ pc' # pc) /\ SentinelAt(call.fifo))
         => /\ pc' # "polling"
            /\ last'.cmd = "U" /\ ~last'.raised
            /\ last'.msg = "scaled up" /\ last'.code = 200
            /\ last'.attempts = attempts + 1
            /\ resp' = [cmd |-> "U", code |-> 200, msg |-> "scaled up"]
            /\ (call.id \notin call.pre
                  => /\ DOMAIN workers' = call.pre \cup {call.id}
                     /\ Cardinality(DOMAIN workers') = Cardinality(call.pre) + 1)]_vars

C4_Witness ==
    /\ last.cmd = "U" /\ last.code = 200 /\ last.attempts = RETRY_BUDGET
    /\ files[<<last.fifo, "out">>].sentinels = {}
    /\ files[<<last.fifo, "err">>].sentinels # {}
    /\ last.key \notin last.pre

\* C5: scale_up never raises to its caller: when an exception occurs in field
\* decoding, worker construction, file setup or process start, or when all 10
\* attempts find no sentinel, it returns exactly ("scale up failed", 500).
C5_ScaleUpNeverRaises ==
    last.cmd = "U"
      => /\ ~last.raised
         /\ error # "Exception"
         /\ resp.cmd = "U" /\ resp.code = last.code /\ resp.msg = last.msg
         /\ (\/ last.stage \in {"decode", "worker", "fifo", "start"}
             \/ (last.attempts = RETRY_BUDGET /\ ~SentinelAt(last.fifo)))
               => (last.msg = "scale up failed" /\ last.code = 500)

C5_Witness ==
    /\ last.cmd = "U" /\ last.stage = "fifo"
    /\ last.msg = "scale up failed" /\ last.code = 500
    /\ resp.code = 500

\* C6: when Load or Scale Up returns a code other than 200, the response with
\* that code is written and the loop is left for good: from then on no command
\* is decoded, dispatched or answered.
C6_NonOkIsTerminal ==
    /\ []((last.cmd \in {"L", "U"} /\ ~last.raised /\ last.code # 200)
            => /\ pc = "exited"
               /\ resp = [cmd |-> last.cmd, code |-> last.code, msg |-> last.msg])
    /\ [][pc = "exited"
            => UNCHANGED <<pc, ncmds, sent, resp, last, workers, procs, service,
                           service_args>>]_vars

C6_Witness ==
    /\ last.cmd = "L" /\ last.code = 507 /\ resp.code = 507
    /\ pc = "exited" /\ ncmds < MaxCmds

\* C7: for a well-formed Load, Scale Up or Scale Down command no exception
\* leaves load_model, scale_up or scale_down: each call returns a
\* (message, code) pair to the connection loop.
C7_NoExceptionEscapes ==
    (last.cmd \in {"L", "U", "D"} /\ last.wf) => (~last.raised /\ last.code # 0)

\* C8: the response written for every Scale Down command the loop receives is
\* status 200 with message "DONE", whatever the operation did.
C8_ScaleDownAlwaysDone ==
    [][Receives("D")
         => /\ sent' = sent + 1
            /\ resp' = [cmd |-> "D", code |-> 200, msg |-> "DONE"]]_vars

C10_OneRecordPerId ==
    /\ DOMAIN workers = {KeyOf(p) : p \in 1..Len(procs)}
    /\ \A k \in DOMAIN workers :
         \E p \in 1..Len(procs) :
            /\ KeyOf(p) = k
            /\ \A q \in 1..Len(procs) : KeyOf(q) = k => q <= p
            /\ workers[k] = [worker |-> p, fifo |-> procs[p].fifo]

C10_Witness ==
    \E p, q \in 1..Len(procs) :
        /\ p < q /\ KeyOf(p) = KeyOf(q) /\ KeyOf(p) = "s1"
        /\ procs[p].fifo # procs[q].fifo
        /\ workers[KeyOf(q)] = [worker |-> q, fifo |-> procs[q].fifo]
        /\ pc = "await"

\* the connection loop is running: it waits for a command or is inside scale_up
InLoop(p) == p \in {"await", "polling"}

\* C11 (as stated): whenever a connection loop ends, the listener returns to
\* accepting, so that a later connection is handled by a fresh loop.
C11_LoopEndReturnsToAccept ==
    [][(InLoop(pc) /\ ~InLoop(pc')) => pc' = "accepting"]_vars

\* C11 (amended): the listener hands each accepted connection to the loop and
\* accepts nothing while it runs; the loop ends only by an exception, which
\* ends the manager process: the listener never returns to accepting and the
\* ended process takes no further step.
C11_LoopEndExitsProcess ==
    /\ [][(InLoop(pc) /\ ~InLoop(pc')) => (pc' = "exited" /\ error' # "")]_vars
    /\ [][pc' = "accepting" => pc = "accepting"]_vars
    /\ [][pc = "exited" => pc' = "exited"]_vars

C11_Witness ==
    /\ pc = "exited" /\ error \in {"RuntimeError", "KeyError"}
    /\ ncmds >= 2 /\ sent >= 1

\* C12: when accept times out, the manager process exits with a reported error
\* without having processed any command, and the socket file of a manager bound
\* to a domain socket no longer exists after the exit.
C12_AcceptTimeoutExits ==
    (pc = "exited" /\ error = "timeout")
      => /\ ncmds = 0 /\ sent = 0 /\ last = NoLast /\ resp = NoResp
         /\ DOMAIN workers = {} /\ procs = <<>>
         /\ (sock_type = "unix" => ~sock_file)

C12_Witness ==
    pc = "exited" /\ error = "timeout" /\ sock_type = "unix" /\ ~sock_file

\* the loader ran out of memory in one of its two calls
OutOfMemory(ld) == ld \in {"MemoryError", "MemoryErrorInit"}

\* the manifest of the loaded descriptor declares a model file
DeclaresModelFile(ld) == ld \in {"modelFile", "MemoryErrorInit"}

\* the construction parameters (name, dir, handler, gpu, batchSize) of a request
ParamsOf(req) ==
    <<Some(req.modelName), Some(req.modelPath),
      IF req.handler = "" THEN None ELSE Some(req.handler),
      IF req.gpu = Absent THEN None ELSE Some(1),
      IF req.batchSize = Absent THEN None ELSE Some(1)>>

\* C13: a Load that returns gives (service, None, "loaded model {name}", 200)
\* with a materialized service exactly when memory suffices and the manifest
\* declares a model file, (None, (name, dir, handler, gpu, batchSize),
\* "loaded model {name}", 200) when it declares none, and
\* (None, None, "System out of memory", 507) when memory runs out; the service
\* and the construction parameters are never both non-None.
C13_LoadOutcomes ==
    (pc = "returned" /\ ~ret.raised)
      => /\ ret.service.present <=> (DeclaresModelFile(arg.ld) /\ ~OutOfMemory(arg.ld))
         /\ ret.service.present
              => /\ ret.service_args = None
                 /\ ret.msg = "loaded model m1" /\ ret.code = 200
         /\ (~DeclaresModelFile(arg.ld) /\ ~OutOfMemory(arg.ld))
              => /\ ret.service_args = ParamsOf(arg.req)
                 /\ ret.msg = "loaded model m1" /\ ret.code = 200
         /\ OutOfMemory(arg.ld)
              => /\ ret.service_args = None
                 /\ ret.msg = "System out of memory" /\ ret.code = 507
         /\ ~(ret.service.present /\ ret.service_args # None)

C13_Witness ==
    /\ pc = "returned" /\ ~ret.raised
    /\ arg.ld = "noManifest" /\ arg.req.handler = "" /\ arg.req.gpu = Absent
    /\ ret.code = 200 /\ ~ret.service.present
    /\ ret.service_args = <<Some("m1"), Some("d1"), None, None, Some(1)>>

\* C14: when a Scale Up fails because no polling attempt within the retry
\* budget found the sentinel, nothing is rolled back: at the return of 500 the
\* record registered for the id is still in the store, with the handle of the
\* spawned process, and no termination of that process has been requested.
C14_NoRollback ==
    (last.cmd = "U" /\ last.stage = "spawned" /\ last.code = 500)
      => /\ last.key \in DOMAIN workers
         /\ workers[last.key] = [worker |-> last.pid, fifo |-> last.fifo]
         /\ last.pid \in 1..Len(procs)
         /\ procs[last.pid].terms = 0
         /\ DOMAIN workers = last.pre \cup {last.key}

C14_Witness ==
    /\ last.cmd = "U" /\ last.stage = "spawned" /\ last.code = 500
    /\ last.attempts = RETRY_BUDGET /\ pc = "exited"
    /\ last.pid = 2 /\ last.key \in DOMAIN workers
    /\ procs[2].terms = 0

\* C15: when the response to a command has been written, metrics are forwarded
\* before the next command is read if and only if the loop goes on and the
\* service of the most recent Load is materialized with a populated metrics
\* store. The service is the one the most recent returning Load produced (none
\* before the first Load, none on the deferred path), and nothing is forwarded
\* after a command that failed.
C15_MetricsAfterResponse ==
    /\ [][sent' = sent + 1
            => /\ emitted' <=> (pc' = "await" /\ service'.present /\ service'.metrics)
               /\ (service_args' # None \/ pc' = "exited") => ~emitted']_vars
    /\ [][IF Receives("L") /\ ~last'.raised
          THEN service' = last'.svc
          ELSE service' = service]_vars
    /\ [][(pc = "accepting" /\ pc' = "await") => ~service'.present]_vars

C15_Witness ==
    /\ emitted /\ resp.cmd = "D" /\ sent = 3
    /\ service.present /\ service.metrics /\ pc = "await"

\* the optional fields of a Load command
OptionalFields == {"handler", "gpu", "batchSize"}

\* C16: a Load command that carries its two required fields and from which an
\* optional field (handler, gpu, batchSize) is absent, the optional fields it
\* carries being readable, does not raise in field decoding, and yields the outcome
\* of the same command with that field explicitly empty.
C16_AbsentOptionalIsNone ==
    (/\ pc = "returned"
     /\ arg.req.modelPath # Absent /\ arg.req.modelName # Absent
     /\ \A g \in OptionalFields : arg.req[g] \in {Absent, "h1", "1"})
      => \A f \in OptionalFields :
            arg.req[f] = Absent
              => /\ ret.exc \notin {"KeyError", "ValueError"}
                 /\ ret = load_model([arg.req EXCEPT ![f] = ""], arg.ld, arg.metrics)

\* C17: every spawned worker process whose termination the manager has not
\* requested is the process handle of some record of the store.
C17_RunningWorkerHasRecord ==
    \A p \in 1..Len(procs) :
        procs[p].terms = 0 => \E k \in DOMAIN workers : workers[k].worker = p

\* the sentinels in the two files of base path f
SentinelsAt(f) == files[<<f, "out">>].sentinels \cup files[<<f, "err">>].sentinels

\* C18: both synchronization files are empty when the worker process of a
\* Scale Up has been started and the polling begins, whatever an earlier worker
\* with the same base path left in them; and a Scale Up that reports success
\* has read a sentinel, every sentinel it could read having been written
\* during this Scale Up, after it created its files.
C18_FreshSentinelOnly ==
    /\ [][(pc = "await" /\ pc' = "polling")
            => /\ files'[<<call'.fifo, "out">>] = EmptyFile
               /\ files'[<<call'.fifo, "err">>] = EmptyFile]_vars
    /\ [][(pc = "polling" /\ pc' # "polling" /\ last'.code = 200)
            => /\ SentinelsAt(call.fifo) # {}
               /\ \A s \in SentinelsAt(call.fifo) : s[2] = call.pid]_vars

C18_Witness ==
    /\ last.cmd = "U" /\ last.code = 200 /\ last.pid = 2
    /\ procs[1].fifo = last.fifo
    /\ <<1, 2>> \notin SentinelsAt(last.fifo)
    /\ <<2, 2>> \in SentinelsAt(last.fifo)

\* C19: command handling is the same with the profiling flag set or not: a
\* command with tag L, U or D that the loop receives is dispatched to its
\* operation, and it is answered or ends the loop.
C19_FlagKeepsDispatch ==
    [][\A t \in Tags :
          Receives(t) => /\ last'.cmd = t
                         /\ (sent' = sent + 1 \/ pc' = "exited")]_vars

\* the exception the environment raises in the Scale Up a step begins
FaultOfStep == IF pc' = "polling" THEN call'.fault ELSE last'.fault

\* C20: a Scale Up that fails before the worker process is started (a request
\* field is missing, the worker object cannot be constructed, a
\* synchronization file cannot be removed or created) spawns no process,
\* leaves the store as it was and returns ("scale up failed", 500).
C20_EarlyFailureNoEffect ==
    [][(/\ pc = "await" /\ ~BENCHMARK /\ ncmds' = ncmds + 1
        /\ (pc' = "polling" \/ last'.tag = "U")
        /\ \/ FaultOfStep \in {"worker", "remove_out", "open_out",
                               "remove_err", "open_err"}
           \/ (pc' # "polling" /\ ~last'.wf))
         => /\ procs' = procs
            /\ workers' = workers
            /\ pc' # "polling"
            /\ ~last'.raised
            /\ last'.msg = "scale up failed" /\ last'.code = 500]_vars

C20_Witness ==
    /\ last.cmd = "U" /\ last.fault = "open_err" /\ last.stage = "fifo"
    /\ last.code = 500 /\ Len(procs) = 1
    /\ DOMAIN workers = last.pre /\ DOMAIN workers # {}

====
